---- MODULE Spec2Model ----
(***************************************************************************)
(* The api-server websocket hub of pear-desktop                            *)
(* (src/plugins/api-server/backend/routes/websocket.ts): the state kept by *)
(* register(), the song-info callback, the ipc handlers, the websocket     *)
(* onOpen/onClose handlers and the /lyrics/current route; and the          *)
(* registrations of the synced-lyrics backend                              *)
(* (src/plugins/synced-lyrics/backend.ts).                                 *)
(*                                                                         *)
(* JavaScript runs every handler to completion on one thread; the only     *)
(* suspension point is the await of the /lyrics/current route, which is    *)
(* therefore split in the part before and the part after the await.        *)
(***************************************************************************)
EXTENDS Integers, Sequences, FiniteSets, TLC

(***************************************************************************)
(* Bounds of the model.                                                    *)
(***************************************************************************)
\* number of websocket handles that can be connected at the same time
NumSockets == 2
\* number of different tracks (videoId 1..NumVideos)
NumVideos == 2
\* elapsedSeconds and seek targets range over 0..MaxElapsed
MaxElapsed == 1
\* the synced-lyrics backend is started at most MaxStarts times
MaxStarts == 3

Sockets == 1..NumSockets
VideoIds == 1..NumVideos
Seconds == 0..MaxElapsed
\* the one request of the /lyrics/current route followed by the model
Requests == {"r1"}
\* values of Date.now()
Clock == {7}
\* volume levels sent by the player
Levels == {42}
\* the repeat modes sent by the player (RepeatMode also has "ONE")
RepeatModes == {"NONE", "ALL"}

(***************************************************************************)
(* JavaScript values.  A value of a field typed `any` or optional is a     *)
(* tagged record; strings are sequences of characters so that Number(),    *)
(* split() and trim() can be computed.                                     *)
(***************************************************************************)
Undefined == [t |-> "undefined"]
Null == [t |-> "null"]
NaN == [t |-> "number", nan |-> TRUE]
Bool(b) == [t |-> "boolean", v |-> b]
Num(n) == [t |-> "number", v |-> n]
Str(s) == [t |-> "string", v |-> s]
Obj(r) == [t |-> "object", v |-> r]
\* a value whose conversion to number or string throws a TypeError, such as
\* the object { valueOf: 1, toString: 1 }
Sym == [t |-> "unconvertible"]

\* typeof v
TypeOf(v) == IF v.t \in {"null", "unconvertible"} THEN "object" ELSE v.t

IsNullish(v) == v.t \in {"undefined", "null"}

\* a ?? b
Coalesce(a, b) == IF IsNullish(a) THEN b ELSE a

\* v?.f : undefined for a nullish v and for a value without that property
Get(v, f) ==
  IF v.t = "object" /\ f \in DOMAIN v.v THEN v.v[f] ELSE Undefined

\* !v for the values a song's isPaused can take
Not(v) ==
  CASE v.t = "boolean" -> ~v.v
    [] v.t \in {"undefined", "null"} -> TRUE
    [] OTHER -> FALSE

Digits == <<"0", "1", "2", "3", "4", "5", "6", "7", "8", "9">>

IsDigit(c) == \E i \in 1..10 : Digits[i] = c

DigitValue(c) == (CHOOSE i \in 1..10 : Digits[i] = c) - 1

\* String.prototype.trim
RECURSIVE TrimLeft(_)
TrimLeft(s) ==
  IF s # <<>> /\ Head(s) = " " THEN TrimLeft(Tail(s)) ELSE s

RECURSIVE TrimRight(_)
TrimRight(s) ==
  IF s # <<>> /\ s[Len(s)] = " " THEN TrimRight(SubSeq(s, 1, Len(s) - 1)) ELSE s

Trim(s) == TrimRight(TrimLeft(s))

\* the value of a string of decimal digits
RECURSIVE DecimalValue(_)
DecimalValue(s) ==
  IF s = <<>> THEN 0
  ELSE 10 * DecimalValue(SubSeq(s, 1, Len(s) - 1)) + DigitValue(s[Len(s)])

\* Number(v)
ToNumber(v) ==
  CASE v.t = "undefined" -> NaN
    [] v.t = "null" -> Num(0)
    [] v.t = "boolean" -> Num(IF v.v THEN 1 ELSE 0)
    [] v.t = "number" -> v
    [] v.t = "string" ->
         LET s == Trim(v.v)
         IN  IF s = <<>> THEN Num(0)
             ELSE IF \A i \in 1..Len(s) : IsDigit(s[i]) THEN Num(DecimalValue(s))
             ELSE NaN
    [] OTHER -> NaN

\* isNaN(v) for a number v
IsNaN(v) == v = NaN

\* v >= 0 for a number v (false for NaN)
NonNegative(v) == v # NaN /\ v.v >= 0

\* whether Number(v) or String(v) throws
ConversionThrows(v) == v.t = "unconvertible"

\* String(v) for the values a lyric text can take
ToStr(v) ==
  CASE v.t = "string" -> v.v
    [] v.t = "undefined" -> <<"u", "n", "d", "e", "f", "i", "n", "e", "d">>
    [] v.t = "null" -> <<"n", "u", "l", "l">>
    [] v.t = "boolean" ->
         IF v.v THEN <<"t", "r", "u", "e">> ELSE <<"f", "a", "l", "s", "e">>
    [] v.t = "number" ->
         IF v = NaN THEN <<"N", "a", "N">>
         ELSE IF v.v \in 0..9 THEN <<Digits[v.v + 1]>>
         ELSE <<Digits[(v.v \div 10) + 1], Digits[(v.v % 10) + 1]>>
    [] OTHER ->
         <<"[", "o", "b", "j", "e", "c", "t", " ", "O", "b", "j", "e", "c", "t", "]">>

\* artist.split(/[&,]/)
RECURSIVE SplitArtists(_, _)
SplitArtists(s, cur) ==
  IF s = <<>> THEN <<cur>>
  ELSE IF Head(s) \in {"&", ","} THEN <<cur>> \o SplitArtists(Tail(s), <<>>)
  ELSE SplitArtists(Tail(s), Append(cur, Head(s)))

\* artist ? artist.split(/[&,]/).map((s) => s.trim()) : []
Artists(artist) ==
  IF artist = <<>> THEN <<>>
  ELSE LET parts == SplitArtists(artist, <<>>)
       IN  [i \in 1..Len(parts) |-> Trim(parts[i])]

(***************************************************************************)
(* Songs delivered by the song-info provider.                              *)
(***************************************************************************)
TitleOf(v) == IF v = 1 THEN <<"T", "1">> ELSE <<"T">>

ArtistOf(v) ==
  CASE v = 1 -> <<"A", " ", "&", " ", "B", ",", " ", "C">>
    [] v = 2 -> <<"D">>
    [] OTHER -> <<>>

SongInfos ==
  { [videoId |-> v, title |-> TitleOf(v), artist |-> ArtistOf(v),
     isPaused |-> p, elapsedSeconds |-> e] :
      v \in VideoIds, p \in {Bool(TRUE), Bool(FALSE), Undefined}, e \in Seconds }

\* the song reference of a lyric: { title, artists, videoId } or undefined
SongRef(song) ==
  IF song = Undefined THEN Undefined
  ELSE [title |-> song.title, artists |-> Artists(song.artist),
        videoId |-> song.videoId]

(***************************************************************************)
(* Lyric lines.                                                            *)
(***************************************************************************)
LyricsChanged == "LYRICS_CHANGED"
LyricsUnavailable == "LYRICS_UNAVAILABLE"

\* LyricIndex with the default index 0 instead of -1
LyricIndexFromZero(payload) ==
  LET idx == ToNumber(Coalesce(Get(payload, "index"), Num(0)))
  IN  IF NonNegative(idx) THEN idx ELSE Null

\* const idx = Number(payload?.index ?? -1); index: idx >= 0 ? idx : null
LyricIndex(payload) ==
  LET idx == ToNumber(Coalesce(Get(payload, "index"), Num(-1)))
  IN  IF NonNegative(idx) THEN idx ELSE Null

\* LyricIsSynced decided by the line having any time at all
LyricIsSyncedIfTimed(line) ==
  ~IsNullish(Coalesce(Get(line, "timeInMs"), Get(line, "time")))

\* typeof line?.timeInMs === 'number' || typeof line?.time === 'string'
LyricIsSynced(line) ==
  \/ TypeOf(Get(line, "timeInMs")) = "number"
  \/ TypeOf(Get(line, "time")) = "string"

\* normalizeLyric(payload, song); now is the value of Date.now().
\* The result is Null when a conversion throws (the catch branch).
normalizeLyric(payload, song, now) ==
  LET rawIdx == Coalesce(Get(payload, "index"), Num(-1))
      line == Coalesce(Get(payload, "line"), Null)
      text == Coalesce(Coalesce(Coalesce(Get(line, "text"), Get(line, "lyrics")),
                                Get(line, "text")), Str(<<>>))
      rawTime == Coalesce(Coalesce(Get(line, "timeInMs"), Get(line, "time")), NaN)
      rawDuration == Coalesce(Get(line, "duration"), Num(0))
      rawTimestamp == Coalesce(Get(payload, "timestamp"), Num(now))
      timeInMs == ToNumber(rawTime)
      duration == ToNumber(rawDuration)
  IN  IF \E v \in {rawIdx, text, rawTime, rawDuration, rawTimestamp} :
           ConversionThrows(v)
      THEN Null
      ELSE [index |-> LyricIndex(payload),
            text |-> ToStr(Coalesce(text, Str(<<>>))),
            timeInMs |-> IF IsNaN(timeInMs) THEN Num(0) ELSE timeInMs,
            duration |-> IF IsNaN(duration) THEN Num(0) ELSE duration,
            isSynced |-> LyricIsSynced(line),
            song |-> SongRef(song),
            timestamp |-> ToNumber(rawTimestamp),
            provider |-> Coalesce(Get(payload, "provider"), Null),
            romanized |-> Coalesce(Get(payload, "romanized"), Null)]

\* the lyric that the /lyrics/current route builds from the renderer's result
ScrapedLyric(res, song) ==
  [index |-> Get(res, "index"),
   text |-> Get(res, "text").v,
   timeInMs |-> Num(0),
   duration |-> Num(0),
   isSynced |-> FALSE,
   song |-> SongRef(song),
   timestamp |-> Get(res, "timestamp"),
   provider |-> Null,
   romanized |-> Coalesce(Get(res, "romanized"), Null)]

\* payloads of 'synced-lyrics:current' that the hub ingests in the model:
\* a synced line and a payload whose index cannot be converted
LyricPayloads ==
  { Obj([index |-> Num(0),
         line |-> Obj([text |-> Str(<<"l", "a">>), timeInMs |-> Num(5),
                       duration |-> Num(2)]),
         timestamp |-> Num(3)]),
    Obj([index |-> Sym]) }

\* the record f without the fields outside S
Restrict(f, S) == [x \in S |-> f[x]]

\* raw `line` values: null, a bare string, and objects with any subset of
\* the fields the normalization reads
RawLines ==
  {Null, Str(<<"l", "a">>)} \cup
  { Obj(Restrict(full, S)) :
      full \in [text : {Str(<<"l", "a">>), Null},
                lyrics : {Str(<<"l", "y">>)},
                timeInMs : {Num(5), Str(<<"5">>), Sym},
                time : {Str(<<"1", "2">>), Str(<<"x">>), Num(4)},
                duration : {Num(2), Str(<<"x">>)}],
      S \in SUBSET {"text", "lyrics", "timeInMs", "time", "duration"} }

\* raw payloads of 'synced-lyrics:current': undefined, null, and objects
\* with any subset of index, line and timestamp
RawPayloads ==
  {Undefined, Null} \cup
  { Obj(Restrict(full, S)) :
      full \in [index : {Num(0), Num(-1), Str(<<"1">>), Sym},
                line : RawLines,
                timestamp : {Num(3)}],
      S \in SUBSET {"index", "line", "timestamp"} }

\* what the script run in the renderer returns: null without a current
\* line, else { index: null, text, romanized, timestamp: Date.now() }
ScrapeResults ==
  {Null} \cup
  { Obj([index |-> Null, text |-> Str(<<"l", "a">>), romanized |-> Null,
         timestamp |-> Num(now)]) : now \in Clock } \cup
  { Obj([index |-> Null, text |-> Str(<<>>), romanized |-> Str(<<"r", "a">>),
         timestamp |-> Num(now)]) : now \in Clock }

\* how the promise of executeJavaScript can settle
Settlements ==
  {[state |-> "rejected"]} \cup
  {[state |-> "resolved", value |-> res] : res \in ScrapeResults}

(***************************************************************************)
(* State.                                                                  *)
(***************************************************************************)
VARIABLES
  volumeState,    \* let volumeState: undefined or [state, isMuted]
  repeat,         \* let repeat
  shuffle,        \* let shuffle
  lastSongInfo,   \* let lastSongInfo: undefined or a song
  lastLyrics,     \* let lastLyrics: undefined or a lyric line
  sockets,        \* const sockets: a Set, iterated in insertion order
  broken,         \* the connected handles whose send() throws
  pc,             \* per request of /lyrics/current: idle, awaiting, settled
  refresh,        \* per request: how executeJavaScript settled
  sent,           \* history: what the last handler handed to a socket, in order
  threw,          \* history: the socket whose send() threw in it, or 0
  answered,       \* history: the request the last handler answered, how its
                  \* refresh had settled and the response, or undefined
  first2,         \* history: per connection, the types of its first two messages
  latestPaused,   \* history: the isPaused field of the song of the most
                  \* recent song-info event ("none" before the first)
  sinceTrack,     \* history: none, cleared (track change), pushed (lyric push)
  nowPlaying,     \* history: the videoId of the song of the most recent
                  \* song-info event (0 before the first)
  lyricCall,      \* the arguments of a call of normalizeLyric
  lyricResult,    \* what that call returned
  lastCurrent,    \* synced-lyrics backend: let lastCurrent
  registered,     \* synced-lyrics backend: per ipc channel, the number of
                  \* handlers or listeners registered on it
  started         \* synced-lyrics backend: started and not stopped since

vars ==
  <<volumeState, repeat, shuffle, lastSongInfo, lastLyrics, sockets, broken,
    pc, refresh, sent, threw, answered, first2, latestPaused, sinceTrack,
    nowPlaying, lyricCall, lyricResult, lastCurrent, registered, started>>

\* the variables of the call of normalizeLyric followed on its own
callVars == <<lyricCall, lyricResult>>

\* the variables of the synced-lyrics backend
backendVars == <<lastCurrent, registered, started>>

hubVars == <<volumeState, repeat, shuffle, lastSongInfo, lastLyrics>>

DefaultVolume == 100

Registered == {sockets[i] : i \in 1..Len(sockets)}

\* enum DataTypes
PlayerInfo == "PLAYER_INFO"
VideoChanged == "VIDEO_CHANGED"
PlayerStateChanged == "PLAYER_STATE_CHANGED"
PositionChanged == "POSITION_CHANGED"
VolumeChanged == "VOLUME_CHANGED"
RepeatChanged == "REPEAT_CHANGED"
ShuffleChanged == "SHUFFLE_CHANGED"

\* createPlayerState({ songInfo, volumeState, repeat, shuffle })
createPlayerState(songInfo, vol, rep, shuf) ==
  [song |-> songInfo,
   isPlaying |-> IF songInfo # Undefined THEN Not(songInfo.isPaused) ELSE FALSE,
   muted |-> IF vol # Undefined THEN vol.isMuted ELSE FALSE,
   position |-> IF songInfo # Undefined THEN songInfo.elapsedSeconds ELSE 0,
   volume |-> IF vol # Undefined THEN vol.state ELSE DefaultVolume,
   repeat |-> rep,
   shuffle |-> shuf]

\* { type, ...state }
Message(type, state) == [type |-> type] @@ state

\* sockets.forEach((socket) => socket.send(msg)): the sends made, in
\* insertion order, up to the first socket whose send throws
FirstBroken ==
  IF \E i \in 1..Len(sockets) : sockets[i] \in broken
  THEN CHOOSE i \in 1..Len(sockets) :
         /\ sockets[i] \in broken
         /\ \A j \in 1..(i - 1) : sockets[j] \notin broken
  ELSE Len(sockets) + 1

\* FanOut handing the message twice to every socket
FanOutTwice(msg) ==
  LET once == [i \in 1..(FirstBroken - 1) |-> [to |-> sockets[i], msg |-> msg]]
  IN  [sent |-> once \o once,
       threw |-> IF FirstBroken <= Len(sockets) THEN sockets[FirstBroken] ELSE 0]

FanOut(msg) ==
  [sent |-> [i \in 1..(FirstBroken - 1) |-> [to |-> sockets[i], msg |-> msg]],
   threw |-> IF FirstBroken <= Len(sockets) THEN sockets[FirstBroken] ELSE 0]

\* the first two message types of every connection, after these sends
Record2(f, msgs) ==
  [s \in Sockets |->
     LET mine == SelectSeq(msgs, LAMBDA m : m.to = s)
         all == f[s] \o [i \in 1..Len(mine) |-> mine[i].msg.type]
     IN  SubSeq(all, 1, IF Len(all) < 2 THEN Len(all) ELSE 2)]

\* the continuation of a settled promise runs before any other handler
NoMicrotask == \A r \in Requests : pc[r] # "settled"

\* the ipc channels of the synced-lyrics backend
Fetch == "synced-lyrics:fetch"
Current == "synced-lyrics:current"
GetCurrent == "synced-lyrics:get-current"
Channels == {Fetch, Current, GetCurrent}

\* register(): the hub before any event
HubInit ==
  /\ volumeState = Undefined
  /\ repeat = "NONE"
  /\ shuffle = FALSE
  /\ lastSongInfo = Undefined
  /\ lastLyrics = Undefined
  /\ sockets = <<>>
  /\ broken = {}
  /\ pc = [r \in Requests |-> "idle"]
  /\ refresh = [r \in Requests |-> Undefined]
  /\ sent = <<>>
  /\ threw = 0
  /\ answered = Undefined
  /\ first2 = [s \in Sockets |-> <<>>]
  /\ latestPaused = [t |-> "none"]
  /\ sinceTrack = "none"
  /\ nowPlaying = 0

\* no call of normalizeLyric is followed on its own
CallIdle ==
  /\ lyricCall = Undefined
  /\ lyricResult = Undefined

\* the synced-lyrics backend module before start()
BackendInit ==
  /\ lastCurrent = Null
  /\ registered = [c \in Channels |-> 0]
  /\ started = FALSE

Init == HubInit /\ CallIdle /\ BackendInit

\* send(type, state) and its effect on the history
Send(type, state) ==
  LET out == FanOut(Message(type, state))
  IN  /\ sent' = out.sent
      /\ threw' = out.threw
      /\ answered' = Undefined
      /\ first2' = Record2(first2, out.sent)

\* a handler that hands nothing to a socket
Quiet ==
  /\ sent' = <<>>
  /\ threw' = 0
  /\ answered' = Undefined

(***************************************************************************)
(* The song-info callback: registerCallback((songInfo, event) => ...).     *)
(* A send that throws ends the callback before lastSongInfo is assigned.   *)
(***************************************************************************)
SongInfoEvents == {"VideoSrcChanged", "PlayOrPaused", "TimeChanged"}

SongInfoDelta(songInfo, event) ==
  CASE event = "VideoSrcChanged" ->
         Message(VideoChanged, [song |-> songInfo, position |-> 0])
    [] event = "PlayOrPaused" ->
         Message(PlayerStateChanged,
                 [isPlaying |-> ~(Coalesce(songInfo.isPaused, Bool(TRUE)).v),
                  position |-> songInfo.elapsedSeconds])
    [] event = "TimeChanged" ->
         Message(PositionChanged, [position |-> songInfo.elapsedSeconds])

SongInfoCallback(songInfo, event) ==
  /\ NoMicrotask
  /\ lastLyrics' = IF event = "VideoSrcChanged" THEN Undefined ELSE lastLyrics
  /\ LET out == FanOut(SongInfoDelta(songInfo, event))
     IN  /\ sent' = out.sent
         /\ threw' = out.threw
         /\ answered' = Undefined
         /\ first2' = Record2(first2, out.sent)
         /\ lastSongInfo' = IF out.threw = 0 THEN songInfo ELSE lastSongInfo
  /\ latestPaused' = songInfo.isPaused
  /\ sinceTrack' = IF event = "VideoSrcChanged" THEN "cleared" ELSE sinceTrack
  /\ UNCHANGED <<volumeState, repeat, shuffle, sockets, broken, pc, refresh>>
  /\ nowPlaying' = songInfo.videoId
  /\ UNCHANGED <<callVars, backendVars>>

(***************************************************************************)
(* The ipc handlers.                                                       *)
(***************************************************************************)
\* ipc.on('synced-lyrics:current', (payload) => ...)
SyncedLyricsCurrent(payload, now) ==
  /\ NoMicrotask
  /\ LET normalized == normalizeLyric(payload, lastSongInfo, now)
     IN  IF normalized = Null
         THEN /\ Quiet
              /\ UNCHANGED <<lastLyrics, first2, sinceTrack>>
         ELSE /\ lastLyrics' = normalized
              /\ Send(LyricsChanged, [lyric |-> normalized])
              /\ sinceTrack' = "pushed"
  /\ UNCHANGED <<volumeState, repeat, shuffle, lastSongInfo, sockets, broken,
                 pc, refresh, latestPaused>>
  /\ UNCHANGED <<nowPlaying, callVars, backendVars>>

\* ipc.on('peard:volume-changed', (newVolumeState) => ...)
VolumeChangedHandler(newVolumeState) ==
  /\ NoMicrotask
  /\ volumeState' = newVolumeState
  /\ Send(VolumeChanged, [volume |-> newVolumeState.state,
                          muted |-> newVolumeState.isMuted])
  /\ UNCHANGED <<repeat, shuffle, lastSongInfo, lastLyrics, sockets, broken,
                 pc, refresh, latestPaused, sinceTrack>>
  /\ UNCHANGED <<nowPlaying, callVars, backendVars>>

\* ipc.on('peard:repeat-changed', (mode) => ...)
RepeatChangedHandler(mode) ==
  /\ NoMicrotask
  /\ repeat' = mode
  /\ Send(RepeatChanged, [repeat |-> mode])
  /\ UNCHANGED <<volumeState, shuffle, lastSongInfo, lastLyrics, sockets,
                 broken, pc, refresh, latestPaused, sinceTrack>>
  /\ UNCHANGED <<nowPlaying, callVars, backendVars>>

\* ipc.on('peard:seeked', (t) => ...)
Seeked(t) ==
  /\ NoMicrotask
  /\ Send(PositionChanged, [position |-> t])
  /\ UNCHANGED <<hubVars, sockets, broken, pc, refresh, latestPaused, sinceTrack>>
  /\ UNCHANGED <<nowPlaying, callVars, backendVars>>

\* ipc.on('peard:shuffle-changed', (newShuffle) => ...)
ShuffleChangedHandler(newShuffle) ==
  /\ NoMicrotask
  /\ shuffle' = newShuffle
  /\ Send(ShuffleChanged, [shuffle |-> newShuffle])
  /\ UNCHANGED <<volumeState, repeat, lastSongInfo, lastLyrics, sockets,
                 broken, pc, refresh, latestPaused, sinceTrack>>
  /\ UNCHANGED <<nowPlaying, callVars, backendVars>>

(***************************************************************************)
(* The websocket route.                                                    *)
(***************************************************************************)
\* the PLAYER_INFO message of onOpen
PlayerInfoNow ==
  Message(PlayerInfo, createPlayerState(lastSongInfo, volumeState, repeat, shuffle))

\* Baseline with the lyric message sent before PLAYER_INFO
BaselineLyricsFirst(ws) ==
  << [to |-> ws,
      msg |-> IF lastLyrics # Undefined
              THEN Message(LyricsChanged, [lyric |-> lastLyrics])
              ELSE [type |-> LyricsUnavailable]],
     [to |-> ws, msg |-> PlayerInfoNow] >>

\* the two messages onOpen sends to the new connection
Baseline(ws) ==
  << [to |-> ws, msg |-> PlayerInfoNow],
     [to |-> ws,
      msg |-> IF lastLyrics # Undefined
              THEN Message(LyricsChanged, [lyric |-> lastLyrics])
              ELSE [type |-> LyricsUnavailable]] >>

\* onOpen(_, ws): a handle that is not connected connects
OnOpen(ws) ==
  /\ NoMicrotask
  /\ ws \notin Registered
  /\ sockets' = Append(sockets, ws)
  /\ sent' = Baseline(ws)
  /\ threw' = 0
  /\ answered' = Undefined
  /\ first2' = Record2(first2, Baseline(ws))
  /\ UNCHANGED <<hubVars, broken, pc, refresh, latestPaused, sinceTrack>>
  /\ UNCHANGED <<nowPlaying, callVars, backendVars>>

\* onClose(_, ws): sockets.delete(ws)
OnClose(ws) ==
  /\ NoMicrotask
  /\ ws \in Registered
  /\ sockets' = SelectSeq(sockets, LAMBDA x : x # ws)
  /\ broken' = broken \ {ws}
  /\ first2' = [first2 EXCEPT ![ws] = <<>>]
  /\ Quiet
  /\ UNCHANGED <<hubVars, pc, refresh, latestPaused, sinceTrack>>
  /\ UNCHANGED <<nowPlaying, callVars, backendVars>>

\* the transport of a connected handle fails: from now on its send() throws
\* (no close event has been delivered for it yet)
TransportFails(ws) ==
  /\ NoMicrotask
  /\ ws \in Registered \ broken
  /\ broken' = broken \cup {ws}
  /\ Quiet
  /\ UNCHANGED <<hubVars, sockets, pc, refresh, first2, latestPaused, sinceTrack>>
  /\ UNCHANGED <<nowPlaying, callVars, backendVars>>

(***************************************************************************)
(* The /lyrics/current route: app.openapi(currentLyricRoute, async ...).   *)
(***************************************************************************)
\* the handler up to `await window.webContents.executeJavaScript(script, true)`
CurrentLyricRequest(r) ==
  /\ NoMicrotask
  /\ pc[r] = "idle"
  /\ pc' = [pc EXCEPT ![r] = "awaiting"]
  /\ Quiet
  /\ UNCHANGED <<hubVars, sockets, broken, refresh, first2, latestPaused, sinceTrack>>
  /\ UNCHANGED <<nowPlaying, callVars, backendVars>>

\* the renderer answers: the promise resolves with res or rejects
RefreshSettles(r, how) ==
  /\ NoMicrotask
  /\ pc[r] = "awaiting"
  /\ pc' = [pc EXCEPT ![r] = "settled"]
  /\ refresh' = [refresh EXCEPT ![r] = how]
  /\ Quiet
  /\ UNCHANGED <<hubVars, sockets, broken, first2, latestPaused, sinceTrack>>
  /\ UNCHANGED <<nowPlaying, callVars, backendVars>>

\* the response of the route: ctx.status(200); ctx.json({ available, lyric })
Response(lyrics) ==
  [status |-> 200,
   body |-> [available |-> lyrics # Undefined,
             lyric |-> IF lyrics # Undefined THEN lyrics ELSE Null]]

\* CurrentLyricResume without the assignment to lastLyrics
CurrentLyricResumeReadOnly(r) ==
  /\ pc[r] = "settled"
  /\ answered' = [r |-> r, settled |-> refresh[r], response |-> Response(lastLyrics)]
  /\ pc' = [pc EXCEPT ![r] = "idle"]
  /\ refresh' = [refresh EXCEPT ![r] = Undefined]
  /\ sent' = <<>>
  /\ threw' = 0
  /\ UNCHANGED <<hubVars, sockets, broken, first2, latestPaused, sinceTrack>>
  /\ UNCHANGED <<nowPlaying, callVars, backendVars>>

\* CurrentLyricResume without the catch: a rejected refresh becomes the
\* framework's 500 response
CurrentLyricResumeNoCatch(r) ==
  /\ pc[r] = "settled"
  /\ LET how == refresh[r]
         installs == how.state = "resolved" /\ how.value # Null
         lyrics == IF installs THEN ScrapedLyric(how.value, lastSongInfo)
                   ELSE lastLyrics
     IN  /\ lastLyrics' = lyrics
         /\ answered' = [r |-> r, settled |-> how,
                         response |-> IF how.state = "rejected"
                                      THEN [status |-> 500]
                                      ELSE Response(lyrics)]
  /\ pc' = [pc EXCEPT ![r] = "idle"]
  /\ refresh' = [refresh EXCEPT ![r] = Undefined]
  /\ sent' = <<>>
  /\ threw' = 0
  /\ UNCHANGED <<volumeState, repeat, shuffle, lastSongInfo, sockets, broken,
                 first2, latestPaused, sinceTrack>>
  /\ UNCHANGED <<nowPlaying, callVars, backendVars>>

\* the handler after the await: `if (res) lastLyrics = {...}`, the empty
\* catch, and the response
CurrentLyricResume(r) ==
  /\ pc[r] = "settled"
  /\ LET how == refresh[r]
         installs == how.state = "resolved" /\ how.value # Null
         lyrics == IF installs THEN ScrapedLyric(how.value, lastSongInfo)
                   ELSE lastLyrics
     IN  /\ lastLyrics' = lyrics
         /\ answered' = [r |-> r, settled |-> how, response |-> Response(lyrics)]
  /\ pc' = [pc EXCEPT ![r] = "idle"]
  /\ refresh' = [refresh EXCEPT ![r] = Undefined]
  /\ sent' = <<>>
  /\ threw' = 0
  /\ UNCHANGED <<volumeState, repeat, shuffle, lastSongInfo, sockets, broken,
                 first2, latestPaused, sinceTrack>>
  /\ UNCHANGED <<nowPlaying, callVars, backendVars>>

(***************************************************************************)
(* One call of normalizeLyric, followed on its own.                        *)
(***************************************************************************)
\* the hub at rest and a call normalizeLyric(payload, song) about to be made
InitNormalize ==
  /\ HubInit
  /\ BackendInit
  /\ lyricCall \in [payload : RawPayloads,
                    song : {Undefined} \cup
                           {s \in SongInfos : s.isPaused = Bool(FALSE)
                                              /\ s.elapsedSeconds = 0},
                    now : Clock]
  /\ lyricResult = Undefined

\* the call returns
NormalizeLyricCall ==
  /\ lyricResult = Undefined
  /\ lyricResult' = normalizeLyric(lyricCall.payload, lyricCall.song, lyricCall.now)
  /\ UNCHANGED <<hubVars, sockets, broken, pc, refresh, sent, threw, answered,
                 first2, latestPaused, sinceTrack, nowPlaying, lyricCall,
                 backendVars>>

(***************************************************************************)
(* The synced-lyrics backend (src/plugins/synced-lyrics/backend.ts).       *)
(***************************************************************************)
\* payloads of 'synced-lyrics:current': { index, line, timestamp }
CurrentPayloads ==
  { Obj([index |-> Num(i), line |-> l, timestamp |-> Num(t)]) :
      i \in 0..3,
      l \in {Null, Obj([text |-> Str(<<"l", "a">>)]),
             Obj([text |-> Str(<<"l", "a">>), timeInMs |-> Num(5)])},
      t \in Clock \cup {3} }

\* start(ctx): two ipc.handle and one ipc.on
BackendStart ==
  /\ ~started
  /\ registered[Current] < MaxStarts
  /\ started' = TRUE
  /\ registered' = [c \in Channels |-> registered[c] + 1]
  /\ UNCHANGED <<lastCurrent, hubVars, sockets, broken, pc, refresh, sent,
                 threw, answered, first2, latestPaused, sinceTrack,
                 nowPlaying, callVars>>

\* stop(ctx): removeHandler of the two handled channels
BackendStop ==
  /\ started
  /\ started' = FALSE
  /\ registered' = [registered EXCEPT ![Fetch] = 0, ![GetCurrent] = 0]
  /\ UNCHANGED <<lastCurrent, hubVars, sockets, broken, pc, refresh, sent,
                 threw, answered, first2, latestPaused, sinceTrack,
                 nowPlaying, callVars>>

\* a 'synced-lyrics:current' message: every listener registered on the
\* channel runs `lastCurrent = payload`
BackendCurrent(payload) ==
  /\ lastCurrent' = IF registered[Current] > 0 THEN payload ELSE lastCurrent
  /\ UNCHANGED <<registered, started, hubVars, sockets, broken, pc, refresh,
                 sent, threw, answered, first2, latestPaused, sinceTrack,
                 nowPlaying, callVars>>

NextBackend ==
  \/ BackendStart
  \/ BackendStop
  \/ \E payload \in CurrentPayloads : BackendCurrent(payload)

SpecBackend == Init /\ [][NextBackend]_vars

(***************************************************************************)
(* The hub.                                                                *)
(***************************************************************************)
VolumeStates == {[state |-> l, isMuted |-> m] : l \in Levels, m \in BOOLEAN}

\* one song per track: playing, at its start
TrackInfos ==
  {s \in SongInfos : s.isPaused = Bool(FALSE) /\ s.elapsedSeconds = 0}

\* the handlers that keep the player state and fan its deltas out, and the
\* websocket route
NextPlayer ==
  \/ \E songInfo \in SongInfos, event \in SongInfoEvents :
       SongInfoCallback(songInfo, event)
  \/ \E v \in VolumeStates : VolumeChangedHandler(v)
  \/ \E mode \in RepeatModes : RepeatChangedHandler(mode)
  \/ \E t \in Seconds : Seeked(t)
  \/ \E b \in BOOLEAN : ShuffleChangedHandler(b)
  \/ \E ws \in Sockets : OnOpen(ws)
  \/ \E ws \in Sockets : OnClose(ws)
  \/ \E ws \in Sockets : TransportFails(ws)

\* the handlers that read or write lastLyrics, and the websocket route
NextLyrics ==
  \/ \E r \in Requests : CurrentLyricRequest(r)
  \/ \E r \in Requests, how \in Settlements : RefreshSettles(r, how)
  \/ \E r \in Requests : CurrentLyricResume(r)
  \/ \E songInfo \in TrackInfos, event \in SongInfoEvents :
       SongInfoCallback(songInfo, event)
  \/ \E payload \in LyricPayloads, now \in Clock : SyncedLyricsCurrent(payload, now)
  \/ \E ws \in Sockets : OnOpen(ws)
  \/ \E ws \in Sockets : OnClose(ws)

Next == NextPlayer \/ NextLyrics

\* The whole hub.  Its state space is the product of the player registers,
\* the lyric snapshot, the registry and the pending requests; the two
\* specifications below each keep the handlers that touch one part of it.
Spec == Init /\ [][Next]_vars

SpecPlayer == Init /\ [][NextPlayer]_vars

SpecLyrics == Init /\ [][NextLyrics]_vars

\* The continuation of a settled promise is a microtask: it runs as soon as
\* the promise has settled.  Nothing makes the renderer answer.
LiveLyrics ==
  SpecLyrics /\ \A r \in Requests : WF_vars(CurrentLyricResume(r))

\* the lyric handlers with subscribers whose transport can fail
NextLyricsFailing ==
  \/ NextLyrics
  \/ \E ws \in Sockets : TransportFails(ws)

SpecLyricsFailing == Init /\ [][NextLyricsFailing]_vars

\* the songs of the first track
FirstTrack == {s \in TrackInfos : s.videoId = 1}

\* every kind of event the hub ingests, and the websocket route
NextEvents ==
  \/ \E songInfo \in FirstTrack, event \in SongInfoEvents :
       SongInfoCallback(songInfo, event)
  \/ \E payload \in LyricPayloads, now \in Clock : SyncedLyricsCurrent(payload, now)
  \/ \E v \in VolumeStates : VolumeChangedHandler(v)
  \/ \E mode \in RepeatModes : RepeatChangedHandler(mode)
  \/ Seeked(0)
  \/ \E b \in BOOLEAN : ShuffleChangedHandler(b)
  \/ \E ws \in Sockets : OnOpen(ws)
  \/ \E ws \in Sockets : OnClose(ws)
  \/ \E ws \in Sockets : TransportFails(ws)

SpecEvents == Init /\ [][NextEvents]_vars

\* a song-info event of a provider that announces every new track with
\* VideoSrcChanged: the other events carry the track announced last
TrackEvent(songInfo, event) ==
  /\ event # "VideoSrcChanged" => songInfo.videoId = nowPlaying
  /\ SongInfoCallback(songInfo, event)

\* the lyric handlers and the route under such a provider, with subscribers
\* whose transport can fail
NextTracks ==
  \/ \E songInfo \in TrackInfos, event \in SongInfoEvents :
       TrackEvent(songInfo, event)
  \/ \E payload \in LyricPayloads, now \in Clock : SyncedLyricsCurrent(payload, now)
  \/ \E ws \in Sockets : OnOpen(ws)
  \/ \E ws \in Sockets : OnClose(ws)
  \/ \E ws \in Sockets : TransportFails(ws)
  \/ \E r \in Requests : CurrentLyricRequest(r)
  \/ \E r \in Requests, how \in Settlements : RefreshSettles(r, how)
  \/ \E r \in Requests : CurrentLyricResume(r)

SpecTracks == Init /\ [][NextTracks]_vars

\* normalizeLyric on every raw payload
SpecNormalize == InitNormalize /\ [][NormalizeLyricCall]_vars

(***************************************************************************)
(* Properties.                                                             *)
(***************************************************************************)
\* the last handler was onOpen: only onOpen sends PLAYER_INFO
Opened == sent # <<>> /\ sent[1].msg.type = PlayerInfo

\* C1: every connection receives first exactly one PLAYER_INFO and then
\* exactly one LYRICS_CHANGED (a lyric snapshot is held) or
\* LYRICS_UNAVAILABLE (none is held): onOpen hands these two messages, in
\* this order, to the new connection and to no other, and no message of
\* another handler reaches a connection before them.
C1_BaselineBeforeDeltas ==
  /\ \A s \in Registered :
       /\ Len(first2[s]) = 2
       /\ first2[s][1] = PlayerInfo
       /\ first2[s][2] \in {LyricsChanged, LyricsUnavailable}
  /\ Opened =>
       /\ Len(sent) = 2
       /\ sent[1].to = sockets[Len(sockets)]
       /\ sent[2].to = sockets[Len(sockets)]
       /\ sent[2].msg = IF lastLyrics # Undefined
                        THEN [type |-> LyricsChanged, lyric |-> lastLyrics]
                        ELSE [type |-> LyricsUnavailable]

\* a second connection opened while a lyric snapshot was held
C1_Witness ==
  /\ Opened
  /\ Len(sockets) = 2
  /\ sent[2].msg.type = LyricsChanged
  /\ first2[sockets[2]] = <<PlayerInfo, LyricsChanged>>

\* C2: a connection that opens after a track change and before the next
\* lyric push receives LYRICS_UNAVAILABLE, whatever else happened in between.
C2_UnavailableUntilNextPush ==
  (Opened /\ sinceTrack = "cleared") => sent[2].msg.type = LyricsUnavailable

\* C3: when the send to subscriber X throws during a fan-out, every other
\* registered subscriber whose transport works has the message, and X is
\* no longer registered when the fan-out has finished.
C3_SendFailureIsolated ==
  threw # 0 =>
    /\ threw \notin Registered
    /\ \A y \in Registered \ broken : \E i \in 1..Len(sent) : sent[i].to = y

\* C4: a volume event hands exactly one VOLUME_CHANGED message with the
\* event's volume and muted to each registered subscriber (at least to each
\* one whose transport works), and nothing to any other.
C4_VolumeOncePerSubscriber ==
  [][\A v \in VolumeStates :
       VolumeChangedHandler(v) =>
         /\ \A i \in 1..Len(sent') :
              /\ sent'[i].to \in Registered
              /\ sent'[i].msg = [type |-> VolumeChanged, volume |-> v.state,
                                 muted |-> v.isMuted]
         /\ \A y \in Registered \ broken :
              Cardinality({i \in 1..Len(sent') : sent'[i].to = y}) = 1
         /\ \A y \in Registered \cap broken :
              Cardinality({i \in 1..Len(sent') : sent'[i].to = y}) <= 1]_vars

\* C5: after a position event (a time change or a seek) to s, the
\* PLAYER_INFO of a connection that opens next carries position s.
C5_PositionIsCanonical ==
  [][/\ \A t \in Seconds : Seeked(t) => PlayerInfoNow'.position = t
     /\ \A song \in SongInfos :
          SongInfoCallback(song, "TimeChanged") =>
            PlayerInfoNow'.position = song.elapsedSeconds]_vars

\* C6: after a track change to song, the VIDEO_CHANGED delta carries
\* position 0 and the PLAYER_INFO of a connection that opens next carries
\* song and position 0.
C6_TrackChangeResetsPosition ==
  [][\A song \in SongInfos :
       SongInfoCallback(song, "VideoSrcChanged") =>
         /\ \A i \in 1..Len(sent') : sent'[i].msg.position = 0
         /\ PlayerInfoNow'.song = song
         /\ PlayerInfoNow'.position = 0]_vars

\* C7: the isPlaying of every PLAYER_INFO is (song present and not
\* song.isPaused) of the song of the most recent song-info event, and false
\* before the first one.
C7_IsPlayingOfLatestSong ==
  Opened =>
    sent[1].msg.isPlaying = (latestPaused.t # "none" /\ Not(latestPaused))

\* C8: every request of /lyrics/current is answered in the end.
C8_RequestAnswered ==
  \A r \in Requests : (pc[r] = "awaiting") ~> (pc[r] = "idle")

\* the step in which the route answers request r
Answers(r) == pc[r] = "settled" /\ pc'[r] = "idle"

RefreshFailed(how) ==
  how.state = "rejected" \/ (how.state = "resolved" /\ how.value = Null)

\* C10: when the refresh throws or yields no result, the route answers 200
\* with { available: a snapshot is held, lyric: the snapshot or null }, and
\* the snapshot is the one held when the refresh failed: no handler runs
\* between the failure and the answer, and the answer does not change it.
C10_FailedRefreshFallsBack ==
  [][\A r \in Requests :
       (pc[r] = "settled" /\ RefreshFailed(refresh[r])) =>
         /\ pc'[r] = "idle"
         /\ lastLyrics' = lastLyrics
         /\ answered' # Undefined
         /\ answered'.r = r
         /\ answered'.response =
              [status |-> 200,
               body |-> [available |-> lastLyrics # Undefined,
                         lyric |-> IF lastLyrics # Undefined THEN lastLyrics
                                   ELSE Null]]]_vars

\* a rejected refresh was answered with the snapshot held
C10_Witness ==
  /\ answered # Undefined
  /\ answered.settled.state = "rejected"
  /\ answered.response.status = 200
  /\ answered.response.body.available
  /\ answered.response.body.lyric = lastLyrics

\* the number of messages the last handler handed to socket s
SentTo(s) == Cardinality({i \in 1..Len(sent) : sent[i].to = s})

\* C11: a lyric event whose payload normalizes to a record makes that
\* record the lyric snapshot and hands exactly one LYRICS_CHANGED message
\* carrying it to each registered subscriber; one whose payload normalizes
\* to null changes neither the lyric snapshot nor the player state and
\* hands no message to any subscriber.
C11_LyricPushAllOrNothing ==
  [][\A p \in LyricPayloads, now \in Clock :
       SyncedLyricsCurrent(p, now) =>
         LET n == normalizeLyric(p, lastSongInfo, now)
         IN  IF n # Null
             THEN /\ lastLyrics' = n
                  /\ Len(sent') = Cardinality(Registered)
                  /\ \A s \in Registered : SentTo(s)' = 1
                  /\ \A i \in 1..Len(sent') :
                       sent'[i].msg = [type |-> LyricsChanged, lyric |-> n]
             ELSE /\ UNCHANGED hubVars
                  /\ sent' = <<>>]_vars

\* C12: a handler of an event hands at most one message to each subscriber,
\* the same message to all of them and to registered subscribers only, and
\* one step changes the registers of one event only (the volume, the repeat
\* mode, the shuffle flag, or the song with the lyric snapshot): no handler
\* runs another one.
C12_OneMessagePerEvent ==
  [][/\ ~Opened' =>
          /\ \A s \in Sockets : SentTo(s)' <= 1
          /\ \A i \in 1..Len(sent') :
               /\ sent'[i].to \in Registered
               /\ sent'[i].msg = sent'[1].msg
     /\ Cardinality({g \in 1..4 :
                       \/ g = 1 /\ volumeState' # volumeState
                       \/ g = 2 /\ repeat' # repeat
                       \/ g = 3 /\ shuffle' # shuffle
                       \/ g = 4 /\ <<lastSongInfo, lastLyrics>>' #
                                   <<lastSongInfo, lastLyrics>>}) <= 1]_vars

\* an event was handed to two subscribers
C12_Witness ==
  /\ ~Opened
  /\ Len(sent) = 2
  /\ sent[1].to # sent[2].to
  /\ sent[1].msg.type = ShuffleChanged

\* C13: every position event, a time change or a seek, hands one
\* POSITION_CHANGED message with its position to every registered
\* subscriber (at least to each one whose transport works), whatever the
\* position of the event before it.
C13_EveryPositionEventBroadcast ==
  [][/\ \A t \in Seconds :
          Seeked(t) =>
            /\ \A s \in Registered \ broken : SentTo(s)' = 1
            /\ \A i \in 1..Len(sent') :
                 sent'[i].msg = [type |-> PositionChanged, position |-> t]
     /\ \A song \in SongInfos :
          SongInfoCallback(song, "TimeChanged") =>
            /\ \A s \in Registered \ broken : SentTo(s)' = 1
            /\ \A i \in 1..Len(sent') :
                 sent'[i].msg = [type |-> PositionChanged,
                                 position |-> song.elapsedSeconds]]_vars

\* the raw payload has no field f
Missing(p, f) == ~(p.t = "object" /\ f \in DOMAIN p.v)

\* the call of normalizeLyric has returned for a payload without `line`,
\* `index` or `timestamp`
ReturnedForPartial ==
  /\ lyricResult # Undefined
  /\ \E f \in {"index", "line", "timestamp"} : Missing(lyricCall.payload, f)

\* the defaults of the parts the payload of the call does not have
DefaultsOfMissing ==
  /\ Missing(lyricCall.payload, "index") => lyricResult.index = Null
  /\ Missing(lyricCall.payload, "line") =>
       /\ lyricResult.text = <<>>
       /\ lyricResult.timeInMs = Num(0)
       /\ lyricResult.duration = Num(0)

\* C14 as stated: for every payload without `line`, `index` or `timestamp`
\* the normalization returns a line, not null, with index null for a
\* missing index and text "", timeInMs 0, duration 0 for a missing line.
C14_PartialPayloadYieldsLine ==
  ReturnedForPartial => (lyricResult # Null /\ DefaultsOfMissing)

\* a field of the payload, or of its line, cannot be converted to a primitive
HasUnconvertible(p) ==
  /\ p.t = "object"
  /\ \/ \E f \in DOMAIN p.v : p.v[f] = Sym
     \/ /\ "line" \in DOMAIN p.v
        /\ p.v.line.t = "object"
        /\ \E f \in DOMAIN p.v.line.v : p.v.line.v[f] = Sym

\* C14 amended: for every payload without `line`, `index` or `timestamp`
\* the normalization returns a line with these defaults, or null; it
\* returns null only for a payload of which a present field cannot be
\* converted to a primitive.
C14_PartialPayloadYieldsLineOrNull ==
  ReturnedForPartial =>
    IF lyricResult = Null THEN HasUnconvertible(lyricCall.payload)
    ELSE DefaultsOfMissing

\* the payload { timestamp: 3 } was normalized with all the defaults
C14_Witness ==
  /\ ReturnedForPartial
  /\ lyricResult # Null
  /\ lyricCall.payload = Obj([timestamp |-> Num(3)])
  /\ lyricResult.index = Null
  /\ lyricResult.text = <<>>
  /\ lyricResult.timeInMs = Num(0)
  /\ lyricResult.timestamp = Num(3)

\* the raw line of the payload is an object whose timeInMs is a number or
\* whose time is a string
RawLineIsTimed(p) ==
  /\ p.t = "object"
  /\ "line" \in DOMAIN p.v
  /\ p.v.line.t = "object"
  /\ \/ "timeInMs" \in DOMAIN p.v.line.v /\ p.v.line.v.timeInMs.t = "number"
     \/ "time" \in DOMAIN p.v.line.v /\ p.v.line.v.time.t = "string"

\* C15: the isSynced of a normalized line is true exactly when the raw
\* line's timeInMs is a number or its time is a string, whatever the
\* normalized timeInMs is.
C15_IsSyncedFromRawLine ==
  (lyricResult # Undefined /\ lyricResult # Null) =>
    lyricResult.isSynced = RawLineIsTimed(lyricCall.payload)

\* a line whose time is the string "x" was normalized: synced, timeInMs 0
C15_Witness ==
  /\ lyricResult # Undefined
  /\ lyricResult # Null
  /\ lyricCall.payload = Obj([line |-> Obj([time |-> Str(<<"x">>)])])
  /\ lyricResult.isSynced
  /\ lyricResult.timeInMs = Num(0)

\* C16: a lyric snapshot that carries a song reference carries the videoId
\* of the last-known song.
C16_SnapshotOfLastKnownSong ==
  (lastLyrics # Undefined /\ lastLyrics.song # Undefined) =>
    (lastSongInfo # Undefined /\ lastLyrics.song.videoId = lastSongInfo.videoId)

\* C17: every song-info event, also one during whose fan-out a send
\* throws, leaves its song as the last-known song, so that the PLAYER_INFO
\* of the next connection and the song reference of the next normalized
\* lyric are those of this song.
C17_EventSongIsRecorded ==
  [][\A song \in SongInfos, event \in SongInfoEvents :
       SongInfoCallback(song, event) =>
         /\ lastSongInfo' = song
         /\ PlayerInfoNow'.song = song
         /\ \A p \in LyricPayloads, now \in Clock :
              normalizeLyric(p, lastSongInfo', now) # Null =>
                normalizeLyric(p, lastSongInfo', now).song = SongRef(song)]_vars

\* C18: the isPlaying of the PLAYER_STATE_CHANGED delta of a play/pause
\* event is the isPlaying of the PLAYER_INFO of a connection that opens
\* right after the event.
C18_DeltaAgreesWithSnapshot ==
  [][\A song \in SongInfos :
       (SongInfoCallback(song, "PlayOrPaused") /\ threw' = 0) =>
         \A i \in 1..Len(sent') :
           sent'[i].msg.isPlaying = PlayerInfoNow'.isPlaying]_vars

\* C19: a step that changes the lyric snapshot hands every registered
\* subscriber its announcement: LYRICS_CHANGED with the new snapshot when
\* it is replaced, VIDEO_CHANGED when it is cleared.
C19_LyricChangeAnnounced ==
  [][lastLyrics' # lastLyrics =>
       \A s \in Registered :
         \E i \in 1..Len(sent') :
           /\ sent'[i].to = s
           /\ IF lastLyrics' = Undefined
              THEN sent'[i].msg.type = VideoChanged
              ELSE sent'[i].msg = [type |-> LyricsChanged, lyric |-> lastLyrics']]_vars

\* C20: after stop() no channel has a registration left, and a
\* 'synced-lyrics:current' message then leaves lastCurrent as it is; after
\* start(), also after start, stop, start, every channel has exactly one.
C20_StopReleasesEveryRegistration ==
  [][/\ ~started' => \A c \in Channels : registered'[c] = 0
     /\ started' => \A c \in Channels : registered'[c] = 1
     /\ (~started /\ ~started') => lastCurrent' = lastCurrent]_vars
====
